---------------------------- MODULE Spec2Model ----------------------------
(***************************************************************************)
(* A model of the JSON codec of this repository: myStringify (the          *)
(* serializer) and myParse (the parser with its reviver walk).  Both are   *)
(* modelled as small-step machines over the call stack of the JavaScript   *)
(* functions; text is a sequence of one-character strings.                 *)
(***************************************************************************)
EXTENDS Integers, Sequences, FiniteSets, TLC

VARIABLES
    \* ---- myStringify ----
    heap,       \* the containers of the argument, by identity: id -> array/object
    value,      \* the argument `value` of myStringify
    replacer,   \* the argument `replacer`
    space,      \* the argument `space`
    stack,      \* `stack`: the containers being visited (ids)
    sframes,    \* the active stringifyArray / stringifyObject calls
    call,       \* the pending call of stringifyValue(key, value, depth), or <<>>
    ret,        \* the value the last call returned, or <<>>
    sstatus,    \* "idle" | "run" | "done" | "TypeError"
    out,        \* what myStringify returned, or <<>>
    \* ---- myParse ----
    json,       \* the argument `json`
    reviver,    \* the argument `reviver`
    index,      \* `index`: the cursor
    pframes,    \* the active parseObject / parseArray calls
    pmode,      \* "value": parseValue is about to run; "string": inside
                \* parseString's loop; "ret": a value was just returned
    strResult,  \* parseString's `result`
    pret,       \* the value the last parse function returned, or <<>>
    pstatus,    \* "idle" | "run" | "done" | "SyntaxError"
    result,     \* what myParse returned, or <<>>
    calls,      \* how many times `reviver` has been invoked
    strRead,    \* the largest position of `json` parseString has read (-1: none)
    badKey,     \* parseString was entered for a key at a character that is no quote
    src         \* the value the text `json` was written from, or <<>>

svars == <<heap, value, replacer, space, stack, sframes, call, ret, sstatus, out>>
pvars == <<json, reviver, index, pframes, pmode, strResult, pret, pstatus,
           result, calls, strRead, badKey, src>>
vars == <<svars, pvars>>

----------------------------------------------------------------------------
(* Bounds of the model. *)

\* the largest number of children of a generated container
MaxLen == 2
\* the largest length of a generated string or key
MaxStrLen == 2
\* how far past the end of the text the cursor is followed
MaxOverrun == 2

----------------------------------------------------------------------------
(* Characters. *)

Quote == "\""
Backslash == "\\"
LF == "\n"
CR == "\r"
TAB == "\t"
FF == "\f"
BS == "<BS>"
SP == " "
\* what json[index] yields past the end of the text
UndefChar == "undefined"

Digits == <<"0", "1", "2", "3", "4", "5", "6", "7", "8", "9">>

\* Array.prototype.join
RECURSIVE Join(_, _)
Join(ss, sep) ==
    IF ss = <<>> THEN <<>>
    ELSE IF Len(ss) = 1 THEN ss[1]
    ELSE ss[1] \o sep \o Join(Tail(ss), sep)

\* String.prototype.repeat
RECURSIVE Repeat(_, _)
Repeat(s, n) == IF n <= 0 THEN <<>> ELSE s \o Repeat(s, n - 1)

RECURSIVE Pow10(_)
Pow10(k) == IF k <= 0 THEN 1 ELSE 10 * Pow10(k - 1)

Abs(n) == IF n < 0 THEN -n ELSE n

----------------------------------------------------------------------------
(* The dynamic values.  v is always a sequence. *)

Null == [t |-> "null", v |-> <<>>]
Undefined == [t |-> "undefined", v |-> <<>>]
Func == [t |-> "function", v |-> <<>>]
Bool(b) == [t |-> "boolean", v |-> <<b>>]
\* the finite number n / 10^k
Num(n, k) == [t |-> "number", v |-> <<n, k>>]
\* a non-finite number (NaN, Infinity)
NaN == [t |-> "number", v |-> <<>>]
Str(s) == [t |-> "string", v |-> s]
\* a reference to the container heap[i]
Ref(i) == [t |-> "ref", v |-> <<i>>]
\* containers as trees (what myParse builds): an array's elements, an
\* object's <<key, value>> entries in enumeration order
Arr(es) == [t |-> "array", v |-> es]
Obj(es) == [t |-> "object", v |-> es]
\* a deleted array element
Hole == [t |-> "hole", v |-> <<>>]
\* a returned text
Text(s) == [t |-> "text", v |-> s]

IsContainer(x) == x.t \in {"array", "object"}

----------------------------------------------------------------------------
(* The callbacks a caller passes as `replacer` or `reviver`.  "null" is no  *)
(* function; "dropB" is (key, value) => key === "b" ? undefined : value;    *)
(* "inc" is (key, value) => typeof value === "number" ? value + 1 : value.  *)

CallFn(fn, key, val) ==
    CASE fn = "dropB" -> IF key = <<"b">> THEN Undefined ELSE val
      [] fn = "inc" -> IF val.t = "number" /\ val.v # <<>>
                       THEN Num(val.v[1] + Pow10(val.v[2]), val.v[2])
                       ELSE val
      [] OTHER -> val

IsFunction(fn) == fn # "null"

----------------------------------------------------------------------------
(* myStringify: the pure parts. *)

\* const indent = typeof space === "number" ? " ".repeat(space) : space || ""
Indent(sp) ==
    IF sp.t = "number" THEN Repeat(<<SP>>, sp.v[1])
    ELSE IF sp.t = "string" THEN sp.v
    ELSE <<>>

indent == Indent(space)

\* the replacement escapeString makes for one character
EscapeChar(c) ==
    CASE c = Quote -> <<Backslash, Quote>>
      [] c = Backslash -> <<Backslash, Backslash>>
      [] c = BS -> <<Backslash, "b">>
      [] c = FF -> <<Backslash, "f">>
      [] c = LF -> <<Backslash, "n">>
      [] c = CR -> <<Backslash, "r">>
      [] c = TAB -> <<Backslash, "t">>
      [] OTHER -> <<c>>

RECURSIVE escapeString(_)
escapeString(str) ==
    IF str = <<>> THEN <<>> ELSE EscapeChar(Head(str)) \o escapeString(Tail(str))

RECURSIVE NatDigits(_)
NatDigits(n) ==
    IF n < 10 THEN <<Digits[n + 1]>>
    ELSE NatDigits(n \div 10) \o <<Digits[(n % 10) + 1]>>

\* the last k decimal digits of n, zero-padded
RECURSIVE FracDigits(_, _)
FracDigits(n, k) ==
    IF k = 0 THEN <<>> ELSE FracDigits(n \div 10, k - 1) \o <<Digits[(n % 10) + 1]>>

\* String(value) of the finite number n / 10^k (k > 0 only when n is not a
\* multiple of 10), for 1e-6 <= |value| < 1e21, where JavaScript writes plain
\* decimal notation
NumberToString(n, k) ==
    (IF n < 0 THEN <<"-">> ELSE <<>>)
    \o NatDigits(Abs(n) \div Pow10(k))
    \o (IF k = 0 THEN <<>> ELSE <<".">> \o FracDigits(Abs(n) % Pow10(k), k))

\* `"${key}"` of stringifyObject: the key between quotes, as it is
KeyText(key) == <<Quote>> \o key \o <<Quote>>

\* `"${escapeString(value)}"` of stringifyValue
StringText(str) == <<Quote>> \o escapeString(str) \o <<Quote>>

\* stringifyValue on a value that is no container: a text, or undefined
ScalarResult(v) ==
    CASE v.t = "null" -> Text(<<"n", "u", "l", "l">>)
      [] v.t = "string" -> Text(StringText(v.v))
      [] v.t = "number" ->
            IF v.v # <<>> THEN Text(NumberToString(v.v[1], v.v[2]))
            ELSE Text(<<"n", "u", "l", "l">>)
      [] v.t = "boolean" ->
            IF v.v[1] THEN Text(<<"t", "r", "u", "e">>)
            ELSE Text(<<"f", "a", "l", "s", "e">>)
      [] OTHER -> Undefined

\* applyReplacer(key, value)
applyReplacer(key, val) ==
    IF IsFunction(replacer) THEN CallFn(replacer, key, val) ELSE val

\* stack.includes(value) (OnStackTopOnly: a variant that looks at the last
\* container pushed only)
OnStackTopOnly(stk, id) == stk # <<>> /\ stk[Len(stk)] = id
OnStack(stk, id) == \E j \in 1..Len(stk) : stk[j] = id

\* stack.push(...) and stack.pop() (StackPopMissing: a variant that leaves
\* the container on the stack)
StackPush(stk, id) == Append(stk, id)
StackPopMissing(stk) == stk
StackPop(stk) == SubSeq(stk, 1, Len(stk) - 1)

\* what stringifyArray returns for the joined element texts (ArrayTextFlat: a
\* variant that indents the elements like the brackets)
ArrayTextFlat(parts, depth) ==
    <<"[">>
    \o (IF indent # <<>>
        THEN <<LF>> \o Repeat(indent, depth) \o Join(parts, <<",", LF>> \o Repeat(indent, depth))
             \o <<LF>> \o Repeat(indent, depth)
        ELSE Join(parts, <<",">>))
    \o <<"]">>
ArrayText(parts, depth) ==
    <<"[">>
    \o (IF indent # <<>>
        THEN <<LF>> \o Repeat(indent, depth + 1)
             \o Join(parts, <<",", LF>> \o Repeat(indent, depth + 1))
             \o <<LF>> \o Repeat(indent, depth)
        ELSE Join(parts, <<",">>))
    \o <<"]">>

\* one entry of stringifyObject's map: the key and the text of its value
\* (a template literal writes an undefined value as "undefined")
EntryText(key, r, depth) ==
    (IF indent # <<>> THEN Repeat(indent, depth + 1) ELSE <<>>)
    \o KeyText(key) \o <<":">>
    \o (IF indent # <<>> THEN <<SP>> ELSE <<>>)
    \o (IF r.t = "text" THEN r.v ELSE <<"u", "n", "d", "e", "f", "i", "n", "e", "d">>)

\* what stringifyObject returns for the joined entries
ObjectText(parts, depth) ==
    <<"{">>
    \o (IF indent # <<>>
        THEN <<LF>> \o Join(parts, <<",", LF>>) \o <<LF>> \o Repeat(indent, depth)
        ELSE Join(parts, <<",">>))
    \o <<"}">>

----------------------------------------------------------------------------
(* myStringify: the calls, one step at a time. *)

\* a call stringifyValue(key, value, depth)
Call(key, val, depth) == [key |-> key, value |-> val, depth |-> depth]

\* an active stringifyArray / stringifyObject call on the container heap[id]:
\* phase is "enter" (nothing done yet), "filter" (the object's filter
\* callback is waiting for child i) or "map" (the map callback is waiting for
\* child i, for an object the i-th kept entry); kept are the entries that
\* passed the filter; parts are the texts map has produced
Frame(id, depth) ==
    [id |-> id, depth |-> depth, phase |-> "enter", i |-> 0, kept |-> <<>>,
     parts |-> <<>>]

Top(frames) == frames[Len(frames)]
Pop(frames) == SubSeq(frames, 1, Len(frames) - 1)
SetTop(frames, f) == [frames EXCEPT ![Len(frames)] = f]

\* stringifyValue(key, value, depth), up to the call of stringifyArray or
\* stringifyObject
stringifyValue ==
    /\ sstatus = "run"
    /\ call # <<>>
    /\ LET c == call[1]
           v == applyReplacer(c.key, c.value)
       IN  IF v.t = "ref"
           THEN IF OnStack(stack, v.v[1])
                THEN \* throw new TypeError("cyclic object value")
                     /\ sstatus' = "TypeError"
                     /\ sframes' = <<>>
                     /\ call' = <<>>
                     /\ UNCHANGED <<ret, stack>>
                ELSE /\ sframes' = Append(sframes, Frame(v.v[1], c.depth))
                     /\ call' = <<>>
                     /\ UNCHANGED <<ret, stack, sstatus>>
           ELSE /\ ret' = <<ScalarResult(v)>>
                /\ call' = <<>>
                /\ UNCHANGED <<stack, sframes, sstatus>>
    /\ UNCHANGED <<heap, value, replacer, space, out, pvars>>

\* stringifyArray(array, depth): entered, or resumed with an element's text
stringifyArray ==
    /\ sstatus = "run"
    /\ sframes # <<>>
    /\ call = <<>>
    /\ LET f == Top(sframes)
           array == heap[f.id].v
           n == Len(array)
           \* stringifyValue("", item, depth + 1) ?? "null"
           piece == IF ret[1].t = "text" THEN ret[1].v ELSE <<"n", "u", "l", "l">>
           parts == IF f.phase = "enter" THEN <<>> ELSE Append(f.parts, piece)
           stk == IF f.phase = "enter" THEN StackPush(stack, f.id) ELSE stack
           i == f.i + 1
       IN  /\ heap[f.id].t = "array"
           /\ f.phase = "enter" \/ ret # <<>>
           /\ IF i <= n
              THEN /\ call' = <<Call(<<>>, array[i], f.depth + 1)>>
                   /\ sframes' = SetTop(sframes, [f EXCEPT !.phase = "map", !.i = i,
                                                          !.parts = parts])
                   /\ stack' = stk
                   /\ ret' = <<>>
              ELSE /\ stack' = StackPop(stk)
                   /\ ret' = <<Text(ArrayText(parts, f.depth))>>
                   /\ sframes' = Pop(sframes)
                   /\ call' = <<>>
    /\ UNCHANGED <<heap, value, replacer, space, sstatus, out, pvars>>

\* stringifyObject(obj, depth): entered, or resumed with an entry's result, in
\* the filter callback or in the map callback
stringifyObject ==
    /\ sstatus = "run"
    /\ sframes # <<>>
    /\ call = <<>>
    /\ LET f == Top(sframes)
           entries == heap[f.id].v
           n == Len(entries)
           stk == IF f.phase = "enter" THEN StackPush(stack, f.id) ELSE stack
           \* filter: stringifyValue(key, value, depth) !== undefined
           kept == IF f.phase = "filter" /\ ret[1] # Undefined
                   THEN Append(f.kept, f.i) ELSE f.kept
           filtering == f.phase = "enter" \/ (f.phase = "filter" /\ f.i < n)
           fi == IF f.phase = "enter" THEN 1 ELSE f.i + 1
           parts == IF f.phase = "map"
                    THEN Append(f.parts,
                                EntryText(entries[f.kept[f.i]][1], ret[1], f.depth))
                    ELSE f.parts
           mi == IF f.phase = "map" THEN f.i + 1 ELSE 1
       IN  /\ heap[f.id].t = "object"
           /\ f.phase = "enter" \/ ret # <<>>
           /\ IF filtering /\ fi <= n
              THEN /\ call' = <<Call(entries[fi][1], entries[fi][2], f.depth)>>
                   /\ sframes' = SetTop(sframes, [f EXCEPT !.phase = "filter", !.i = fi,
                                                          !.kept = kept])
                   /\ stack' = stk
                   /\ ret' = <<>>
              ELSE IF mi <= Len(kept)
              THEN /\ call' = <<Call(entries[kept[mi]][1], entries[kept[mi]][2],
                                     f.depth + 1)>>
                   /\ sframes' = SetTop(sframes, [f EXCEPT !.phase = "map", !.i = mi,
                                                          !.kept = kept, !.parts = parts])
                   /\ stack' = stk
                   /\ ret' = <<>>
              ELSE /\ stack' = StackPop(stk)
                   /\ ret' = <<Text(ObjectText(parts, f.depth))>>
                   /\ sframes' = Pop(sframes)
                   /\ call' = <<>>
    /\ UNCHANGED <<heap, value, replacer, space, sstatus, out, pvars>>

\* return stringifyValue("", value, 0)
myStringifyReturn ==
    /\ sstatus = "run"
    /\ sframes = <<>>
    /\ call = <<>>
    /\ ret # <<>>
    /\ out' = ret
    /\ sstatus' = "done"
    /\ UNCHANGED <<heap, value, replacer, space, stack, sframes, call, ret, pvars>>

----------------------------------------------------------------------------
(* The arguments myStringify is called with. *)

SeqsUpTo(S, n) == UNION {[1..k -> S] : k \in 0..n}

\* the key of the i-th entry of a generated object
Keys == << <<"a">>, <<"b">>, <<"c">>, <<"d">> >>

ArrayOf(s) == [t |-> "array", v |-> s]
ObjectOf(s) == [t |-> "object", v |-> [j \in 1..Len(s) |-> <<Keys[j], s[j]>>]]

\* the children of the generated graphs: a number, an unsupported value, and
\* references to either container (cycles and shared containers included)
GraphVals == {Num(1, 0), Undefined, Ref(1), Ref(2)}

RootShapes ==
    {ArrayOf(s) : s \in SeqsUpTo(GraphVals, MaxLen)}
    \cup {ObjectOf(s) : s \in SeqsUpTo(GraphVals, MaxLen)}

InnerShapes ==
    {ArrayOf(s) : s \in SeqsUpTo(GraphVals, 1)}
    \cup {ObjectOf(s) : s \in SeqsUpTo(GraphVals, 1)}

Graphs ==
    {[heap |-> <<r, n>>, value |-> Ref(1)] : r \in RootShapes, n \in InnerShapes}

\* strings and keys over the characters escapeString escapes and two it
\* does not
StrChars == {"a", "/", Quote, Backslash, BS, FF, LF, CR, TAB}
Strings == SeqsUpTo(StrChars, MaxStrLen)

EmptyHeap == <<ArrayOf(<<>>), ArrayOf(<<>>)>>

Texts ==
    {[heap |-> <<ArrayOf(<<Str(s)>>), ArrayOf(<<>>)>>, value |-> Ref(1)] : s \in Strings}
    \cup {[heap |-> <<[t |-> "object", v |-> << <<k, Num(1, 0)>> >>], ArrayOf(<<>>)>>,
           value |-> Ref(1)] : k \in Strings}
    \cup {[heap |-> <<[t |-> "object", v |-> << <<k, Str(k)>> >>], ArrayOf(<<>>)>>,
           value |-> Ref(1)] : k \in Strings}

Scalars ==
    {Null, Undefined, Func, NaN, Bool(TRUE), Bool(FALSE),
     Num(0, 0), Num(25, 0), Num(-42, 0), Num(5, 1), Num(-314, 4)}
    \cup {Str(s) : s \in Strings}
    \cup {Str(<<"a", Quote, "b", Backslash, "c", LF, "d">>)}

\* { a: 1, b: () => {}, c: { a: undefined } } and [1, undefined, "a", null]
Examples ==
    {[heap |-> <<[t |-> "object",
                  v |-> << <<Keys[1], Num(1, 0)>>, <<Keys[2], Func>>,
                           <<Keys[3], Ref(2)>> >>],
                 ObjectOf(<<Undefined>>)>>,
      value |-> Ref(1)],
     [heap |-> <<ArrayOf(<<Num(1, 0), Undefined, Str(<<"a">>), Null>>),
                 ArrayOf(<<>>)>>,
      value |-> Ref(1)]}

StringifyInputs ==
    Graphs \cup Texts \cup Examples
    \cup {[heap |-> EmptyHeap, value |-> x] : x \in Scalars}

Replacers == {"null", "dropB"}
\* space: absent (0), the number 2, the string "\t"
Spaces == {Num(0, 0), Num(2, 0), Str(<<TAB>>)}

ParseIdle ==
    /\ json = <<>>
    /\ reviver = "null"
    /\ index = 0
    /\ pframes = <<>>
    /\ pmode = "value"
    /\ strResult = <<>>
    /\ pret = <<>>
    /\ pstatus = "idle"
    /\ result = <<>>
    /\ calls = 0
    /\ strRead = -1
    /\ badKey = FALSE
    /\ src = <<>>

\* myStringify(value, replacer, space) is called
Init ==
    /\ \E in \in StringifyInputs : heap = in.heap /\ value = in.value
    /\ replacer \in Replacers
    /\ space \in Spaces
    /\ stack = <<>>
    /\ sframes = <<>>
    /\ call = <<Call(<<>>, value, 0)>>
    /\ ret = <<>>
    /\ sstatus = "run"
    /\ out = <<>>
    /\ ParseIdle

NextStringify ==
    \/ stringifyValue
    \/ stringifyArray
    \/ stringifyObject
    \/ myStringifyReturn

----------------------------------------------------------------------------
(* myParse: the pure parts. *)

\* json[i]
At(i) == IF i < Len(json) THEN json[i + 1] ELSE UndefChar

\* isDigit(char)
isDigit(char) == \E d \in 1..10 : Digits[d] = char

\* /\s/.test(char), for the characters of the model
IsWhitespace(char) == char \in {SP, TAB, LF, CR, FF}

\* skipWhitespace(), from cursor i: the cursor after it
RECURSIVE skipWhitespace(_)
skipWhitespace(i) == IF IsWhitespace(At(i)) THEN skipWhitespace(i + 1) ELSE i

\* json.slice(i, j)
Slice(i, j) ==
    LET e == IF j < Len(json) THEN j ELSE Len(json)
    IN  IF i >= e THEN <<>> ELSE SubSeq(json, i + 1, e)

\* escapes[escapeChar] || escapeChar, as the text `result +=` appends
Unescape(escapeChar) ==
    CASE escapeChar = "b" -> <<BS>>
      [] escapeChar = "f" -> <<FF>>
      [] escapeChar = "n" -> <<LF>>
      [] escapeChar = "r" -> <<CR>>
      [] escapeChar = "t" -> <<TAB>>
      [] escapeChar = UndefChar -> <<"u", "n", "d", "e", "f", "i", "n", "e", "d">>
      [] OTHER -> <<escapeChar>>

\* what `result += json[index]` appends
CharText(char) ==
    IF char = UndefChar THEN <<"u", "n", "d", "e", "f", "i", "n", "e", "d">>
    ELSE <<char>>

\* how many digits stand at cursor i
RECURSIVE DigitSpan(_)
DigitSpan(i) == IF isDigit(At(i)) THEN 1 + DigitSpan(i + 1) ELSE 0

DigitVal(char) == (CHOOSE d \in 1..10 : Digits[d] = char) - 1

RECURSIVE DigitsVal(_)
DigitsVal(ds) ==
    IF ds = <<>> THEN 0
    ELSE 10 * DigitsVal(SubSeq(ds, 1, Len(ds) - 1)) + DigitVal(ds[Len(ds)])

\* m / 10^k without trailing zeros in the fraction
RECURSIVE Normalize(_, _)
Normalize(m, k) ==
    IF k > 0 /\ m % 10 = 0 THEN Normalize(m \div 10, k - 1) ELSE Num(m, k)

\* the match of /-?\d+(\.\d+)?([eE][+-]?\d+)?/y at cursor i: where it ends
\* (-1: no match) and Number(match[0])
NumberMatch(i) ==
    LET neg == At(i) = "-"
        s == IF neg THEN i + 1 ELSE i
        nd == DigitSpan(s)
        e1 == s + nd
        nf == IF At(e1) = "." THEN DigitSpan(e1 + 1) ELSE 0
        e2 == IF nf > 0 THEN e1 + 1 + nf ELSE e1
        hasE == At(e2) \in {"e", "E"}
        eneg == At(e2 + 1) = "-"
        x == IF At(e2 + 1) \in {"+", "-"} THEN e2 + 2 ELSE e2 + 1
        ne == IF hasE THEN DigitSpan(x) ELSE 0
        e3 == IF ne > 0 THEN x + ne ELSE e2
        mant == DigitsVal(Slice(s, e1) \o (IF nf > 0 THEN Slice(e1 + 1, e2) ELSE <<>>))
        ex == IF ne > 0 THEN DigitsVal(Slice(x, e3)) ELSE 0
        k == nf - (IF eneg THEN -ex ELSE ex)
        m == IF neg THEN -mant ELSE mant
    IN  IF nd = 0 THEN [end |-> -1, val |-> Null]
        ELSE [end |-> e3,
              val |-> IF mant = 0 THEN Num(0, 0)
                      ELSE IF k <= 0 THEN Num(m * Pow10(-k), 0)
                      ELSE Normalize(m, k)]

\* result[key] = value, on the entries of `result`
ObjSet(entries, key, val) ==
    IF \E j \in 1..Len(entries) : entries[j][1] = key
    THEN [j \in 1..Len(entries) |->
            IF entries[j][1] = key THEN <<key, val>> ELSE entries[j]]
    ELSE Append(entries, <<key, val>>)

RemoveAt(s, j) == SubSeq(s, 1, j - 1) \o SubSeq(s, j + 1, Len(s))

\* recursiveRevive(holder), from its j-th property on, after n calls of
\* reviver: the holder as the walk leaves it, and the calls made.  for-in
\* visits an array's indices in order and skips its holes.
RECURSIVE ReviveFrom(_, _, _)
ReviveFrom(holder, j, n) ==
    IF j > Len(holder.v) THEN [h |-> holder, n |-> n]
    ELSE LET isArr == holder.t = "array"
             key == IF isArr THEN NatDigits(j - 1) ELSE holder.v[j][1]
             val == IF isArr THEN holder.v[j] ELSE holder.v[j][2]
             newValue == CallFn(reviver, key, val)
             \* recursiveRevive(holder[key])
             sub == IF IsContainer(newValue) THEN ReviveFrom(newValue, 1, 0)
                    ELSE [h |-> newValue, n |-> 0]
         IN  IF isArr /\ val = Hole THEN ReviveFrom(holder, j + 1, n)
             ELSE IF newValue = Undefined
             THEN \* delete holder[key]
                  IF isArr
                  THEN ReviveFrom(Arr([holder.v EXCEPT ![j] = Hole]), j + 1, n + 1)
                  ELSE ReviveFrom(Obj(RemoveAt(holder.v, j)), j, n + 1)
             ELSE IF isArr
             THEN ReviveFrom(Arr([holder.v EXCEPT ![j] = sub.h]), j + 1, n + 1 + sub.n)
             ELSE ReviveFrom(Obj([holder.v EXCEPT ![j] = <<key, sub.h>>]), j + 1,
                             n + 1 + sub.n)

recursiveRevive(holder) == ReviveFrom(holder, 1, 0)

\* applyReviver(obj): what it returns (obj, as the walk over { "": obj } left
\* it when reviver handed obj itself back) and the calls of reviver made
applyReviver(obj) ==
    IF ~IsFunction(reviver) THEN [v |-> obj, n |-> 0]
    ELSE IF IsContainer(obj)
    THEN LET r == recursiveRevive(Obj(<< <<<<>>, obj>> >>))
         IN  [v |-> IF CallFn(reviver, <<>>, obj) = obj THEN r.h.v[1][2] ELSE obj,
              n |-> r.n]
    ELSE [v |-> obj, n |-> 0]

----------------------------------------------------------------------------
(* myParse: the calls, one step at a time. *)

\* an active parseObject / parseArray call: the container built so far, the
\* key read last, and whether the call waits for a key ("key") or for a
\* value ("val")
PFrame(kind) ==
    [kind |-> kind, acc |-> <<>>, key |-> <<>>,
     st |-> IF kind = "object" THEN "key" ELSE "val"]

Max(a, b) == IF a > b THEN a ELSE b

\* one step of the parser that throws nothing
PStep(idx, frames, mode, str, r, n, bk) ==
    /\ index' = idx
    /\ pframes' = frames
    /\ pmode' = mode
    /\ strResult' = str
    /\ pret' = r
    /\ calls' = n
    /\ badKey' = bk
    /\ UNCHANGED <<pstatus, result>>

\* throw new SyntaxError(...)
Throw ==
    /\ pstatus' = "SyntaxError"
    /\ pframes' = <<>>
    /\ UNCHANGED <<index, pmode, strResult, pret, result, calls, badKey>>

\* a parse function returns v with the cursor at idx, after n calls of reviver
Returns(v, n, idx, frames) == PStep(idx, frames, "ret", <<>>, <<v>>, calls + n, badKey)

\* parseString() is called with the cursor at i: index++; let result = ""
BeginString(i, frames, isKey) ==
    PStep(i + 1, frames, "string", <<>>, <<>>, calls,
          badKey \/ (isKey /\ At(i) # Quote))

\* parseLiteral(literal, value) at cursor i
parseLiteral(i, literal, val) ==
    IF Slice(i, i + Len(literal)) = literal
    THEN Returns(val, 0, i + Len(literal), pframes)
    ELSE Throw

\* parseNumber() at cursor i
parseNumber(i) ==
    LET match == NumberMatch(i)
    IN  IF match.end < 0 THEN Throw ELSE Returns(match.val, 0, match.end, pframes)

\* parseValue(), up to the loop of parseString, parseObject or parseArray
parseValue ==
    /\ pstatus = "run"
    /\ pmode = "value"
    /\ LET i == skipWhitespace(index)
           char == At(i)
           i2 == skipWhitespace(i + 1)
       IN  CASE char = Quote -> BeginString(i, pframes, FALSE)
             [] char = "{" ->
                   IF At(i2) = "}"
                   THEN LET r == applyReviver(Obj(<<>>))
                        IN  Returns(r.v, r.n, i2 + 1, pframes)
                   ELSE BeginString(i2, Append(pframes, PFrame("object")), TRUE)
             [] char = "[" ->
                   IF At(i2) = "]"
                   THEN LET r == applyReviver(Arr(<<>>))
                        IN  Returns(r.v, r.n, i2 + 1, pframes)
                   ELSE PStep(i2, Append(pframes, PFrame("array")), "value", <<>>, <<>>,
                              calls, badKey)
             [] char = "t" -> parseLiteral(i, <<"t", "r", "u", "e">>, Bool(TRUE))
             [] char = "f" -> parseLiteral(i, <<"f", "a", "l", "s", "e">>, Bool(FALSE))
             [] char = "n" -> parseLiteral(i, <<"n", "u", "l", "l">>, Null)
             [] char = "-" \/ isDigit(char) -> parseNumber(i)
             [] OTHER -> Throw
    /\ UNCHANGED <<json, reviver, src, strRead, svars>>

\* one turn of parseString's loop, or its return at the closing quote.  The
\* loop has no other exit: past the end of the text json[index] is undefined,
\* which is no quote, and the loop goes on; the model follows it MaxOverrun
\* positions past the end.
parseString ==
    /\ pstatus = "run"
    /\ pmode = "string"
    /\ index < Len(json) + MaxOverrun
    /\ LET char == At(index)
       IN  IF char = Quote
           THEN /\ Returns(Str(strResult), 0, index + 1, pframes)
                /\ strRead' = Max(strRead, index)
           ELSE IF char = Backslash
           THEN /\ PStep(index + 2, pframes, "string",
                         strResult \o Unescape(At(index + 1)), <<>>, calls, badKey)
                /\ strRead' = Max(strRead, index + 1)
           ELSE /\ PStep(index + 1, pframes, "string", strResult \o CharText(char),
                         <<>>, calls, badKey)
                /\ strRead' = Max(strRead, index)
    /\ UNCHANGED <<json, reviver, src, svars>>

\* parseObject(), resumed with the key or with the value of an entry
parseObject ==
    /\ pstatus = "run"
    /\ pmode = "ret"
    /\ pframes # <<>>
    /\ Top(pframes).kind = "object"
    /\ LET f == Top(pframes)
           i == skipWhitespace(index)
           acc == ObjSet(f.acc, f.key, pret[1])
       IN  IF f.st = "key"
           THEN IF At(i) # ":" THEN Throw
                ELSE PStep(skipWhitespace(i + 1),
                           SetTop(pframes, [f EXCEPT !.key = pret[1].v, !.st = "val"]),
                           "value", <<>>, <<>>, calls, badKey)
           ELSE IF At(i) = "}"
                THEN LET r == applyReviver(Obj(acc))
                     IN  Returns(r.v, r.n, i + 1, Pop(pframes))
                ELSE IF At(i) # "," THEN Throw
                ELSE BeginString(skipWhitespace(i + 1),
                                 SetTop(pframes, [f EXCEPT !.acc = acc, !.st = "key"]),
                                 TRUE)
    /\ UNCHANGED <<json, reviver, src, strRead, svars>>

\* parseArray(), resumed with the value of an element
parseArray ==
    /\ pstatus = "run"
    /\ pmode = "ret"
    /\ pframes # <<>>
    /\ Top(pframes).kind = "array"
    /\ LET f == Top(pframes)
           i == skipWhitespace(index)
           acc == Append(f.acc, pret[1])
       IN  IF At(i) = "]"
           THEN LET r == applyReviver(Arr(acc))
                IN  Returns(r.v, r.n, i + 1, Pop(pframes))
           ELSE IF At(i) # "," THEN Throw
           ELSE PStep(i + 1, SetTop(pframes, [f EXCEPT !.acc = acc]), "value", <<>>,
                      <<>>, calls, badKey)
    /\ UNCHANGED <<json, reviver, src, strRead, svars>>

\* the end of myParse: skipWhitespace(), the end-of-input check, and the
\* last call of reviver
myParseReturn ==
    /\ pstatus = "run"
    /\ pmode = "ret"
    /\ pframes = <<>>
    /\ LET i == skipWhitespace(index)
       IN  IF i < Len(json)
           THEN /\ pstatus' = "SyntaxError"
                /\ index' = i
                /\ UNCHANGED <<result, calls>>
           ELSE /\ pstatus' = "done"
                /\ index' = i
                /\ result' = <<IF IsFunction(reviver)
                               THEN CallFn(reviver, <<>>, pret[1]) ELSE pret[1]>>
                /\ calls' = IF IsFunction(reviver) THEN calls + 1 ELSE calls
    /\ UNCHANGED <<pframes, pmode, strResult, pret, badKey, json, reviver, src,
                   strRead, svars>>

NextParse ==
    \/ parseValue
    \/ parseString
    \/ parseObject
    \/ parseArray
    \/ myParseReturn

----------------------------------------------------------------------------
(* The texts myParse is called with: the JSON texts of generated values,   *)
(* whole, cut short, and with one character missing.                       *)

\* the compact JSON text of a value (RFC 8259)
RECURSIVE Render(_)
RenderAll(vs) == [j \in 1..Len(vs) |-> Render(vs[j])]
RenderEntries(es) ==
    [j \in 1..Len(es) |-> StringText(es[j][1]) \o <<":">> \o Render(es[j][2])]
Render(v) ==
    CASE v.t = "array" -> <<"[">> \o Join(RenderAll(v.v), <<",">>) \o <<"]">>
      [] v.t = "object" -> <<"{">> \o Join(RenderEntries(v.v), <<",">>) \o <<"}">>
      [] OTHER -> ScalarResult(v).v

TreeArray(s) == Arr(s)
TreeObject(s) == Obj([j \in 1..Len(s) |-> <<Keys[j], s[j]>>])
Containers(S, n) ==
    {TreeArray(s) : s \in SeqsUpTo(S, n)} \cup {TreeObject(s) : s \in SeqsUpTo(S, n)}

FlatVals == {Null, Bool(TRUE), Num(1, 0), Str(<<"a">>)}
InnerVals == {Num(1, 0), Arr(<<Num(1, 0)>>), TreeObject(<<Num(1, 0), Num(1, 0)>>)}
Nested == Containers(InnerVals, MaxLen)

ParseValues ==
    Containers(FlatVals, MaxLen)
    \cup Nested
    \cup Containers(Nested, 1)
    \cup {Str(s) : s \in Strings}
    \cup {Bool(FALSE), Num(25, 0), Num(-42, 0), Num(5, 1), Num(-314, 4)}

Prefixes(t) == {SubSeq(t, 1, n) : n \in 1..(Len(t) - 1)}
Deletions(t) == {RemoveAt(t, j) : j \in 1..Len(t)}

\* -3.14E-2, 1e6, {"a":1,}, { "a" : [ 1 , null ] } with white space around
ExampleTexts ==
    {[json |-> <<"-", "3", ".", "1", "4", "E", "-", "2">>, src |-> <<Num(-314, 4)>>],
     [json |-> <<"1", "e", "6">>, src |-> <<Num(1000000, 0)>>],
     [json |-> <<"{", Quote, "a", Quote, ":", "1", ",", "}">>, src |-> <<>>],
     [json |-> <<SP, "{", SP, Quote, "a", Quote, SP, ":", LF, "[", SP, "1", SP, ",",
                 TAB, "n", "u", "l", "l", SP, "]", CR, "}", SP>>,
      src |-> <<Obj(<< <<Keys[1], Arr(<<Num(1, 0), Null>>)>> >>)>>]}

ParseInputs ==
    {[json |-> Render(v), src |-> <<v>>] : v \in ParseValues}
    \cup {[json |-> t, src |-> <<>>] :
            t \in UNION {Prefixes(Render(v)) \cup Deletions(Render(v)) : v \in ParseValues}}
    \cup ExampleTexts

Revivers == {"null", "dropB", "inc"}

StringifyIdle ==
    /\ heap = EmptyHeap
    /\ value = Undefined
    /\ replacer = "null"
    /\ space = Num(0, 0)
    /\ stack = <<>>
    /\ sframes = <<>>
    /\ call = <<>>
    /\ ret = <<>>
    /\ sstatus = "idle"
    /\ out = <<>>

\* myParse(json, reviver) is called
InitParse ==
    /\ StringifyIdle
    /\ \E in \in ParseInputs : json = in.json /\ src = in.src
    /\ reviver \in Revivers
    /\ index = 0
    /\ pframes = <<>>
    /\ pmode = "value"
    /\ strResult = <<>>
    /\ pret = <<>>
    /\ pstatus = "run"
    /\ result = <<>>
    /\ calls = 0
    /\ strRead = -1
    /\ badKey = FALSE

SpecParse == InitParse /\ [][NextParse]_vars

\* myParse(myStringify(value)): the text myStringify returned is parsed
parseStringified ==
    /\ sstatus = "done"
    /\ out[1].t = "text"
    /\ pstatus = "idle"
    /\ json' = out[1].v
    /\ pstatus' = "run"
    /\ UNCHANGED <<reviver, index, pframes, pmode, strResult, pret, result, calls,
                   strRead, badKey, src, svars>>

Next ==
    \/ NextStringify
    \/ parseStringified
    \/ NextParse

Spec == Init /\ [][Next]_vars

----------------------------------------------------------------------------
(* Notions the properties are stated with. *)

\* the containers heap[i] hands to stringifyValue and the replacer passes on
\* (with no replacer: the containers heap[i] refers to)
Edges(i) == {j \in DOMAIN heap : \E c \in 1..Len(heap[i].v) :
                IF heap[i].t = "array" THEN applyReplacer(<<>>, heap[i].v[c]) = Ref(j)
                ELSE applyReplacer(heap[i].v[c][1], heap[i].v[c][2]) = Ref(j)}

\* the containers reachable from the set S in at most n further steps
RECURSIVE ReachN(_, _)
ReachN(S, n) ==
    IF n = 0 THEN S ELSE ReachN(S \cup UNION {Edges(i) : i \in S}, n - 1)

\* the containers reachable from heap[i] in one step or more
Reach(i) == ReachN(Edges(i), Len(heap))

\* the containers of the value myStringify is given
Containers0 ==
    LET root == applyReplacer(<<>>, value)
    IN  IF root.t = "ref" THEN {root.v[1]} \cup Reach(root.v[1]) ELSE {}

\* some container of the value is reachable from itself
Cyclic == \E i \in Containers0 : i \in Reach(i)

\* the value as a tree (of an acyclic value)
RECURSIVE ToTree(_)
ToTree(x) ==
    IF x.t # "ref" THEN x
    ELSE LET c == heap[x.v[1]]
         IN  IF c.t = "array" THEN Arr([j \in 1..Len(c.v) |-> ToTree(c.v[j])])
             ELSE Obj([j \in 1..Len(c.v) |-> <<c.v[j][1], ToTree(c.v[j][2])>>])

\* a tree built only from null, booleans, finite numbers, strings, arrays and
\* objects
RECURSIVE IsJson(_)
IsJson(x) ==
    CASE x.t \in {"null", "boolean", "string"} -> TRUE
      [] x.t = "number" -> x.v # <<>>
      [] x.t = "array" -> \A j \in 1..Len(x.v) : IsJson(x.v[j])
      [] x.t = "object" -> \A j \in 1..Len(x.v) : IsJson(x.v[j][2])
      [] OTHER -> FALSE

\* a tree holds a value with no JSON representation
RECURSIVE HasUnsupported(_)
HasUnsupported(x) ==
    CASE x.t \in {"undefined", "function"} -> TRUE
      [] x.t = "array" -> \E j \in 1..Len(x.v) : HasUnsupported(x.v[j])
      [] x.t = "object" -> \E j \in 1..Len(x.v) : HasUnsupported(x.v[j][2])
      [] OTHER -> FALSE

\* the keys of the objects of the value
KeysOf ==
    UNION {{heap[i].v[c][1] : c \in 1..Len(heap[i].v)} :
             i \in {j \in Containers0 : heap[j].t = "object"}}

NoDuplicates(s) == \A a, b \in 1..Len(s) : s[a] = s[b] => a = b

----------------------------------------------------------------------------
(* Properties of myStringify and of the round trip. *)

\* C1: for every acyclic value built only from null, booleans, finite
\* numbers, strings, arrays and objects, myParse(myStringify(v)) ends, without
\* an error, with a value that deep-equals v: the same string contents, array
\* order, object keys and key order.
C1_RoundTrip ==
    (/\ sstatus = "done"
     /\ replacer = "null"
     /\ space = Num(0, 0)
     /\ ~Cyclic
     /\ IsJson(ToTree(value))
     /\ pstatus \in {"done", "SyntaxError"})
    => (pstatus = "done" /\ result = <<ToTree(value)>>)

\* C2: whenever a container of the value is reachable from itself (at any
\* depth, through arrays or objects; with a replacer, through the entries it
\* passes on) the call never returns a text: no container is entered while
\* it is on the stack, the call goes on until it throws the cyclic-reference
\* error, and nothing is returned.
C2_CycleDetected ==
    (sstatus # "idle" /\ Cyclic)
    => (/\ sstatus \in {"run", "TypeError"}
        /\ out = <<>>
        /\ NoDuplicates(stack)
        /\ (sstatus = "run" => ENABLED NextStringify))

\* a cycle that does not pass through the root was detected
C2_Witness ==
    /\ sstatus = "TypeError"
    /\ replacer = "null"
    /\ value = Ref(1)
    /\ 1 \notin Reach(1)
    /\ 2 \in Reach(2)

\* the containers whose stringifyArray / stringifyObject call has begun, from
\* the root down
Chain ==
    LET entered == SelectSeq(sframes, LAMBDA f : f.phase # "enter")
    IN  [j \in 1..Len(entered) |-> entered[j].id]

\* C10: while a call of myStringify runs, the stack holds exactly the chain of
\* containers from the root to the container being visited; it is empty when
\* the call returns; and the cyclic-reference error is raised only for a
\* value with a container reachable from itself, so never for a container
\* that is merely shared by two siblings.
C10_StackIsChain ==
    /\ (sstatus = "run" => stack = Chain)
    /\ (sstatus = "done" => stack = <<>>)
    /\ (sstatus = "TypeError" => Cyclic)

\* an array holding the same container twice was serialized
C10_Witness ==
    /\ sstatus = "done"
    /\ out[1].t = "text"
    /\ value = Ref(1)
    /\ heap[1] = ArrayOf(<<Ref(2), Ref(2)>>)
    /\ heap[2] = ObjectOf(<<Num(1, 0)>>)
    /\ ~Cyclic

\* C9: the text myStringify writes for an object key is the text it writes
\* for the same string as a value: for the object { key: 1 }, written
\* compactly, the output is "{" + myStringify(key) + ":1}".
C9_KeysEscaped ==
    (/\ sstatus = "done"
     /\ replacer = "null"
     /\ space = Num(0, 0)
     /\ value = Ref(1)
     /\ heap[1].t = "object"
     /\ Len(heap[1].v) = 1
     /\ heap[1].v[1][2] = Num(1, 0))
    => out = <<Text(<<"{">> \o ScalarResult(Str(heap[1].v[1][1])).v
                    \o <<":", "1", "}">>)>>

----------------------------------------------------------------------------
(* The reference JSON.stringify (ECMAScript, JSON.stringify with             *)
(* SerializeJSONProperty, SerializeJSONObject, SerializeJSONArray and       *)
(* QuoteJSONString), for a call without replacer.                           *)

\* the gap: a number gives that many spaces, a string itself, 10 at most
RefGap ==
    IF space.t = "number"
    THEN Repeat(<<SP>>, IF space.v[1] > 10 THEN 10 ELSE space.v[1])
    ELSE IF space.t = "string"
    THEN SubSeq(space.v, 1, IF Len(space.v) > 10 THEN 10 ELSE Len(space.v))
    ELSE <<>>

RECURSIVE RefQuoteChars(_)
RefQuoteChars(s) ==
    IF s = <<>> THEN <<>>
    ELSE (CASE Head(s) = Quote -> <<Backslash, Quote>>
            [] Head(s) = Backslash -> <<Backslash, Backslash>>
            [] Head(s) = BS -> <<Backslash, "b">>
            [] Head(s) = FF -> <<Backslash, "f">>
            [] Head(s) = LF -> <<Backslash, "n">>
            [] Head(s) = CR -> <<Backslash, "r">>
            [] Head(s) = TAB -> <<Backslash, "t">>
            [] OTHER -> <<Head(s)>>)
         \o RefQuoteChars(Tail(s))

RefQuote(s) == <<Quote>> \o RefQuoteChars(s) \o <<Quote>>

RECURSIVE RefSerialize(_, _)
\* the texts of an array's elements: null where there is none
RefElements(xs, ind) ==
    [j \in 1..Len(xs) |->
        LET r == RefSerialize(xs[j], ind)
        IN  IF r.t = "text" THEN r.v ELSE <<"n", "u", "l", "l">>]
\* the members of an object: the entries that have a text
RECURSIVE RefMembers(_, _)
RefMembers(es, ind) ==
    IF es = <<>> THEN <<>>
    ELSE LET r == RefSerialize(Head(es)[2], ind)
         IN  (IF r.t = "text"
              THEN <<RefQuote(Head(es)[1]) \o <<":">>
                     \o (IF RefGap # <<>> THEN <<SP>> ELSE <<>>) \o r.v>>
              ELSE <<>>)
             \o RefMembers(Tail(es), ind)
RefWrap(open, parts, close, ind) ==
    IF parts = <<>> THEN <<open, close>>
    ELSE IF RefGap = <<>> THEN <<open>> \o Join(parts, <<",">>) \o <<close>>
    ELSE <<open, LF>> \o ind \o RefGap \o Join(parts, <<",", LF>> \o ind \o RefGap)
         \o <<LF>> \o ind \o <<close>>
RefSerialize(x, ind) ==
    CASE x.t = "ref" ->
            LET c == heap[x.v[1]]
            IN  IF c.t = "array"
                THEN Text(RefWrap("[", RefElements(c.v, ind \o RefGap), "]", ind))
                ELSE Text(RefWrap("{", RefMembers(c.v, ind \o RefGap), "}", ind))
      [] x.t = "null" -> Text(<<"n", "u", "l", "l">>)
      [] x.t = "boolean" -> Text(IF x.v[1] THEN <<"t", "r", "u", "e">>
                                 ELSE <<"f", "a", "l", "s", "e">>)
      [] x.t = "string" -> Text(RefQuote(x.v))
      [] x.t = "number" -> Text(IF x.v = <<>> THEN <<"n", "u", "l", "l">>
                                ELSE NumberToString(x.v[1], x.v[2]))
      [] OTHER -> Undefined

RefStringify == RefSerialize(value, <<>>)

\* C7: a value with no JSON representation (undefined, a function) is left
\* out with its key when it is an object entry, at every depth, and written
\* as null when it is an array element; with no replacer the output is that
\* of the reference JSON.stringify.
C7_OmissionAsReference ==
    (/\ sstatus = "done"
     /\ replacer = "null"
     /\ ~Cyclic
     /\ HasUnsupported(ToTree(value)))
    => out = <<RefStringify>>

----------------------------------------------------------------------------
(* The layout of the returned text, read off the text alone. *)

\* which characters of t, from the p-th on, stand inside a string literal
\* (its quotes included)
RECURSIVE StrMaskFrom(_, _, _, _)
StrMaskFrom(t, p, inside, esc) ==
    IF p > Len(t) THEN <<>>
    ELSE IF inside
    THEN <<TRUE>> \o StrMaskFrom(t, p + 1, esc \/ t[p] # Quote, ~esc /\ t[p] = Backslash)
    ELSE <<t[p] = Quote>> \o StrMaskFrom(t, p + 1, t[p] = Quote, FALSE)

Openers == {"[", "{"}
Closers == {"]", "}"}

StartsAt(t, p, s) == p >= 1 /\ p + Len(s) - 1 <= Len(t) /\ SubSeq(t, p, p + Len(s) - 1) = s

\* every child on a line of its own after depth + 1 copies of the unit u, every
\* closing bracket on a line of its own after depth copies, one space after
\* every colon (an empty container keeps one blank line between its brackets)
LaidOut(t, u) ==
    LET mask == StrMaskFrom(t, 1, FALSE, FALSE)
        outside(p) == ~mask[p]
        depth(p) ==
            Cardinality({q \in 1..(p - 1) : outside(q) /\ t[q] \in Openers})
            - Cardinality({q \in 1..(p - 1) : outside(q) /\ t[q] \in Closers})
        at(p) == IF p <= Len(t) THEN t[p] ELSE UndefChar
    IN  \A p \in 1..Len(t) :
          outside(p) =>
            /\ t[p] \in Openers \cup {","} => at(p + 1) = LF
            /\ t[p] = ":" => at(p + 1) = SP /\ at(p + 2) \notin {SP, UndefChar}
            /\ t[p] \in Closers =>
                  StartsAt(t, p - 1 - Len(u) * (depth(p) - 1),
                           <<LF>> \o Repeat(u, depth(p) - 1))
            /\ t[p] = LF =>
                  \/ /\ StartsAt(t, p + 1, Repeat(u, depth(p)))
                     /\ at(p + 1 + Len(u) * depth(p))
                           \notin Closers \cup {SP, TAB, LF, UndefChar}
                  \/ /\ StartsAt(t, p + 1, Repeat(u, depth(p) - 1))
                     /\ at(p + 1 + Len(u) * (depth(p) - 1)) \in Closers
                  \/ /\ t[p - 1] \in Openers
                     /\ \/ at(p + 1) = LF
                        \/ StartsAt(t, p + 1, Repeat(u, depth(p)) \o <<LF>>)
            /\ t[p] # SP \/ (p > 1 /\ (t[p - 1] \in {":", LF, SP} \/ u # <<SP>>))

\* no newline and no space outside the string literals
Compact(t) ==
    LET mask == StrMaskFrom(t, 1, FALSE, FALSE)
    IN  \A p \in 1..Len(t) : ~mask[p] => t[p] \notin {LF, SP, TAB}

\* no key of the value holds a quote or a backslash (KeyText writes a key as
\* it is, so only then do the quotes of the text delimit its strings)
PlainKeys ==
    \A k \in KeysOf : \A j \in 1..Len(k) : k[j] \notin {Quote, Backslash}

\* C8: with a non-empty indent unit every child of a container at depth d
\* starts on its own line after exactly d + 1 copies of the unit, the closing
\* bracket is on its own line after exactly d copies, and every colon of an
\* entry is followed by exactly one space; with an empty unit the text has no
\* newline and no space outside its strings.  (Checked for the values whose
\* keys hold no quote and no backslash.)
C8_Indentation ==
    (sstatus = "done" /\ out[1].t = "text" /\ PlainKeys)
    => IF indent # <<>> THEN LaidOut(out[1].v, indent) ELSE Compact(out[1].v)

\* an array nested in an object was written with a two-space indent
C8_Witness ==
    /\ sstatus = "done"
    /\ out[1].t = "text"
    /\ space = Num(2, 0)
    /\ replacer = "null"
    /\ value = Ref(1)
    /\ heap[1] = ObjectOf(<<Num(1, 0), Ref(2)>>)
    /\ heap[2] = ArrayOf(<<Num(1, 0)>>)

----------------------------------------------------------------------------
(* Properties of myParse. *)

\* the reference walk of JSON.parse (ECMAScript, InternalizeJSONProperty):
\* the entries of val first, each replaced by what the walk returns for it or
\* deleted when that is undefined, then reviver(key, val)
RECURSIVE RefInternalize(_, _)
RECURSIVE RefWalk(_, _)
RefWalk(holder, j) ==
    IF j > Len(holder.v) THEN holder
    ELSE LET isArr == holder.t = "array"
             key == IF isArr THEN NatDigits(j - 1) ELSE holder.v[j][1]
             val == IF isArr THEN holder.v[j] ELSE holder.v[j][2]
             new == RefInternalize(key, val)
         IN  IF new = Undefined
             THEN IF isArr THEN RefWalk(Arr([holder.v EXCEPT ![j] = Hole]), j + 1)
                  ELSE RefWalk(Obj(RemoveAt(holder.v, j)), j)
             ELSE IF isArr THEN RefWalk(Arr([holder.v EXCEPT ![j] = new]), j + 1)
             ELSE RefWalk(Obj([holder.v EXCEPT ![j] = <<key, new>>]), j + 1)
RefInternalize(key, val) ==
    CallFn(reviver, key, IF IsContainer(val) THEN RefWalk(val, 1) ELSE val)

\* C3: for a valid JSON text and a reviver, myParse(text, reviver) is the
\* value of the reference walk: reviver is called exactly once for every
\* entry, after the entries nested in it, the entry takes the returned value
\* or is deleted when that is undefined, and reviver("", root) comes last.
C3_ReviverAsReference ==
    (src # <<>> /\ IsFunction(reviver) /\ pstatus \in {"done", "SyntaxError"})
    => /\ pstatus = "done"
       /\ result = <<RefInternalize(<<>>, src[1])>>

\* C4: reviver is not called before the whole text has been consumed and the
\* end-of-input check has passed; a call that fails with SyntaxError has
\* called it zero times.
C4_ReviverAfterParse ==
    /\ (calls > 0 => pstatus = "done")
    /\ (pstatus = "SyntaxError" => calls = 0)

\* C5: in a text whose strings all begin with a quote, parseString never
\* reads a position at or beyond the length of the text, and the cursor never
\* passes the end of the text (an unterminated string ends the call with a
\* SyntaxError instead).
C5_StringWithinText ==
    ~badKey => (strRead < Len(json) /\ index <= Len(json))

\* C6: a text with an object member that does not begin with a double quote
\* is never accepted.
C6_KeysAreStrings == badKey => pstatus # "done"

====
